---- MODULE Spec2Model ----
(***************************************************************************)
(* Model of the code snippet manager (src/main.py): the Snippet record,    *)
(* the SQLite-backed SnippetDatabase and the Tkinter SnippetManagerApp.    *)
(*                                                                         *)
(* Text is a sequence of one-character strings, so that str.upper() and    *)
(* the f-string formatting are computed rather than assumed.  Python None  *)
(* in a text slot is the value None below; in the id slot it is NoId.      *)
(* The table is a sequence of rows <<id, title, code, language, tags,      *)
(* description>> in rowid order, the order "SELECT *" scans it in.         *)
(***************************************************************************)
EXTENDS Integers, Sequences, FiniteSets, TLC

VARIABLES store,        \* rows of table "snippets", in rowid order
          snippets,     \* SnippetManagerApp.snippets
          listbox,      \* labels held by snippet_listbox
          cursel,       \* snippet_listbox.curselection(): <<>> or <<index>>
          code_display, \* text held by the code_display widget
          pc,           \* "idle", or the modal dialog the running handler
                        \* is waiting in
          last,         \* the running handler: its locals (answers, index,
                        \* target) and its record
          stack,        \* the handlers waiting below the running one, each
                        \* with the prompt it waits in
          finished,     \* history: the handler the last step ended, if any
          issued        \* history: every id the table has held so far

vars == <<store, snippets, listbox, cursel, code_display, pc, last, stack,
          finished, issued>>

\* ---------------------------------------------------------------- bounds
MaxRows == 2
MaxId == 3
MaxDepth == 2

\* ------------------------------------------------------------ text values
None == <<"<None>">>
NoId == 0

\* str.upper() is modelled on ASCII and on the Latin-1 letters whose upper
\* case is a Latin-1 string; it is left undefined on any other character.
Lowers == <<"a","b","c","d","e","f","g","h","i","j","k","l","m",
            "n","o","p","q","r","s","t","u","v","w","x","y","z",
            "à","á","â","ã","ä","å","æ","ç","è","é","ê","ë","ì","í","î","ï",
            "ð","ñ","ò","ó","ô","õ","ö","ø","ù","ú","û","ü","ý","þ">>
Uppers == <<"A","B","C","D","E","F","G","H","I","J","K","L","M",
            "N","O","P","Q","R","S","T","U","V","W","X","Y","Z",
            "À","Á","Â","Ã","Ä","Å","Æ","Ç","È","É","Ê","Ë","Ì","Í","Î","Ï",
            "Ð","Ñ","Ò","Ó","Ô","Õ","Ö","Ø","Ù","Ú","Û","Ü","Ý","Þ">>

\* characters upper() leaves as they are
Uncased ==
    {"0","1","2","3","4","5","6","7","8","9"," ","\n","!","#","$","%","&","'",
     "(",")","*","+",",","-",".","/",":",";","<","=",">","?","@","[","]","^",
     "_","{","|","}","~","×","÷"}

\* the upper case of one character: a string of one or two characters
UpperChar(c) ==
    CASE \E i \in 1..Len(Lowers) : Lowers[i] = c
            -> <<Uppers[CHOOSE i \in 1..Len(Lowers) : Lowers[i] = c]>>
      [] c = "ß" -> <<"S", "S">>
      [] (\E i \in 1..Len(Uppers) : Uppers[i] = c) \/ c \in Uncased -> <<c>>

RECURSIVE Upper(_)
\* str.upper()
Upper(s) == IF s = <<>> THEN <<>> ELSE UpperChar(Head(s)) \o Upper(Tail(s))

\* "{x}" inside an f-string: str(x)
Str(x) == IF x = None THEN <<"N","o","n","e">> ELSE x

\* "not x" for an optional string
Falsy(x) == x = None \/ x = <<>>

DefaultLanguage == <<"t","e","x","t">>

\* --------------------------------------------------------------- Snippet
Snippet(title, code, language, tags, description, id) ==
    [id |-> id, title |-> title, code |-> code, language |-> language,
     tags |-> tags, description |-> description]

to_tuple(s) == <<s.title, s.code, s.language, s.tags, s.description>>

\* ------------------------------------------------------- SnippetDatabase
RowIds(rows) == {rows[i][1] : i \in 1..Len(rows)}

SetMax(S) == CHOOSE m \in S : \A x \in S : x <= m

\* variant: the id is the row count plus one
NextRowId_Count(rows) == Len(rows) + 1

\* INTEGER PRIMARY KEY without AUTOINCREMENT: one more than the largest
\* rowid in the table, 1 for an empty table.
NextRowId(rows) == IF rows = <<>> THEN 1 ELSE SetMax(RowIds(rows)) + 1

\* variant: NOT NULL on title alone
ViolatesNotNull_TitleOnly(t) == t[1] = None

\* NOT NULL on title and code: only NULL violates it.
ViolatesNotNull(t) == t[1] = None \/ t[2] = None

\* INSERT INTO snippets (title, code, language, tags, description)
InsertRow(rows, t) ==
    Append(rows, <<NextRowId(rows), t[1], t[2], t[3], t[4], t[5]>>)

add_snippet(rows, s) ==
    IF ViolatesNotNull(to_tuple(s)) THEN rows ELSE InsertRow(rows, to_tuple(s))

\* variant: title and code read from each other's column
get_all_snippets_Swapped(rows) ==
    [i \in 1..Len(rows) |->
        Snippet(rows[i][3], rows[i][2], rows[i][4], rows[i][5], rows[i][6],
                rows[i][1])]

get_all_snippets(rows) ==
    [i \in 1..Len(rows) |->
        Snippet(rows[i][2], rows[i][3], rows[i][4], rows[i][5], rows[i][6],
                rows[i][1])]

\* variant: the id taken for a position in the table
DeleteById_Position(rows, id) ==
    IF id \in 1..Len(rows)
    THEN [i \in 1..(Len(rows) - 1) |-> IF i < id THEN rows[i] ELSE rows[i + 1]]
    ELSE rows

\* variant: WHERE id<=?
DeleteById_UpTo(rows, id) == SelectSeq(rows, LAMBDA r : r[1] > id)

\* DELETE FROM snippets WHERE id=?
DeleteById(rows, id) == SelectSeq(rows, LAMBDA r : r[1] # id)

\* ------------------------------------------------------ SnippetManagerApp
\* variant: the language is not upper-cased
Label_Plain(s) == <<"[">> \o s.language \o <<"]", " ">> \o Str(s.title)

\* f"[{snippet.language.upper()}] {snippet.title}"
Label(s) == <<"[">> \o Upper(s.language) \o <<"]", " ">> \o Str(s.title)

\* None has no upper(): the loop of load_snippets stops at the first such
\* snippet with AttributeError, after the labels before it were inserted.
FirstBad(snips) ==
    IF \E i \in 1..Len(snips) : snips[i].language = None
    THEN CHOOSE i \in 1..Len(snips) :
            /\ snips[i].language = None
            /\ \A j \in 1..(i-1) : snips[j].language # None
    ELSE Len(snips) + 1

LoadListbox(snips) == [i \in 1..(FirstBad(snips) - 1) |-> Label(snips[i])]

\* The text show_snippet_details inserts into the emptied code_display.
Details(s) ==
    <<"T","i","t","l","e",":"," ">> \o Str(s.title)
    \o <<"\n","L","a","n","g","u","a","g","e",":"," ">> \o Str(s.language)
    \o <<"\n","T","a","g","s",":"," ">> \o Str(s.tags)
    \o <<"\n","D","e","s","c","r","i","p","t","i","o","n",":","\n">>
    \o Str(s.description)
    \o <<"\n","\n","-","-","-"," ","C","O","D","E"," ","-","-","-","\n">>
    \o Str(s.code)

\* curselection()[0] and self.snippets[selected_index] both succeed
HasSelection(sel, snips) == sel # <<>> /\ sel[1] < Len(snips)

LoadRaises(snips) == FirstBad(snips) <= Len(snips)

\* indices are 0-based in the program, sequences 1-based here
Selected(sel, snips) == snips[sel[1] + 1]

ShowDetails(sel, snips, display) ==
    IF HasSelection(sel, snips) THEN Details(Selected(sel, snips)) ELSE display

\* The locals and the record of a handler: the answers given so far, the
\* selected index and the id of the snippet read at its start, the dialogs,
\* store calls and reloads in program order, the exception it ended with and
\* the state components its own steps changed.
Op(op, answers, index, target, confirm, effects, error, changed) ==
    [op |-> op, answers |-> answers, index |-> index, target |-> target,
     confirm |-> confirm, effects |-> effects, error |-> error,
     changed |-> changed]

\* the state components a step changes
Touched ==
    (IF store' # store THEN {"store"} ELSE {})
    \cup (IF snippets' # snippets THEN {"snippets"} ELSE {})
    \cup (IF listbox' # listbox THEN {"listbox"} ELSE {})
    \cup (IF cursel' # cursel THEN {"cursel"} ELSE {})
    \cup (IF code_display' # code_display THEN {"code_display"} ELSE {})

NoOp == Op("none", <<>>, -1, NoId, FALSE, <<>>, "", {})

\* ---------------------------------------------------------------- inputs
Titles == {None, <<>>, <<"a">>}
Languages == {None, <<>>, <<"t","e","x","t">>}
Codes == {None, <<>>, <<"x">>}
TagsIn == {<<"t">>}
Descriptions == {None}

\* tables left behind by earlier sessions of the program
InitStores ==
    { <<>>,
      << <<1, <<"a">>, <<"x">>, DefaultLanguage, None, None>> >>,
      << <<2, <<"b">>, <<"x">>, <<"P","y">>, <<"t">>, <<"d">>>> >>,
      << <<1, <<"a">>, <<"x">>, <<"é","ß">>, <<"t">>, None>> >> }

\* the prompts of simpledialog.askstring
AskStates == {"ask_title", "ask_language", "ask_code", "ask_tags",
              "ask_description"}

\* ------------------------------------------------------------------ Init
Init ==
    /\ store \in InitStores
    /\ snippets = get_all_snippets(store)
    /\ listbox = LoadListbox(snippets)
    /\ cursel = <<>>
    /\ code_display = <<>>
    /\ pc = "idle"
    /\ last = NoOp
    /\ stack = <<>>
    /\ finished = Op("init", <<>>, -1, NoId, FALSE, <<"load_snippets">>, "", {})
    /\ issued = RowIds(store)

\* --------------------------------------------------- handlers and dialogs
\* A prompt runs the event loop once before it takes the grab
\* (wait_visibility, then grab_set), so a click queued before that is
\* dispatched while the prompt opens: on the listbox it selects, on a button
\* it runs that button's handler inside the waiting one.  A message box
\* takes the grab before it waits.

\* a button's handler starts, with rec as its locals, and opens dialog d
Start(d, rec) ==
    /\ \/ pc = "idle"
       \/ pc \in AskStates /\ Len(stack) + 1 < MaxDepth
    /\ stack' = IF pc = "idle" THEN stack
                ELSE Append(stack, [pc |-> pc, rec |-> last])
    /\ pc' = d
    /\ last' = rec
    /\ finished' = NoOp

\* the running handler goes on to dialog d
Continue(d, rec) ==
    /\ pc' = d
    /\ last' = rec
    /\ finished' = NoOp
    /\ UNCHANGED stack

\* the running handler returns; the handler below it, if any, waits on
Finish(rec) ==
    /\ finished' = rec
    /\ IF stack = <<>>
       THEN pc' = "idle" /\ last' = NoOp /\ stack' = stack
       ELSE /\ pc' = stack[Len(stack)].pc
            /\ last' = stack[Len(stack)].rec
            /\ stack' = SubSeq(stack, 1, Len(stack) - 1)

\* ------------------------------------------------------- listbox events
\* <<ListboxSelect>> with entry i clicked
Select(i) ==
    /\ pc \in {"idle"} \cup AskStates
    /\ i \in 0..(Len(listbox) - 1)
    /\ cursel' = <<i>>
    /\ code_display' = ShowDetails(cursel', snippets, code_display)
    /\ finished' = NoOp
    /\ UNCHANGED <<store, snippets, listbox, pc, last, stack, issued>>

\* <<ListboxSelect>> delivered when the listbox loses the exported
\* selection to another widget or application; no grab prevents it.
Deselect ==
    /\ cursel # <<>>
    /\ cursel' = <<>>
    /\ code_display' = ShowDetails(cursel', snippets, code_display)
    /\ finished' = NoOp
    /\ UNCHANGED <<store, snippets, listbox, pc, last, stack, issued>>

\* ------------------------------------------------------ add_new_snippet
\* "Add New" pressed: the title prompt opens
AddStart ==
    /\ Start("ask_title",
             Op("add", <<>>, -1, NoId, FALSE, <<"askstring">>, "", {}))
    /\ UNCHANGED <<store, snippets, listbox, cursel, code_display, issued>>

\* The title prompt is answered.  A blank or cancelled title ends the
\* handler.  Otherwise the language prompt opens with "python" pre-selected
\* in its entry, which takes the exported selection from the listbox.
AnswerTitle(title) ==
    /\ pc = "ask_title"
    /\ IF Falsy(title)
       THEN /\ Finish([last EXCEPT !.answers = <<title>>])
            /\ UNCHANGED <<store, snippets, listbox, cursel, code_display, issued>>
       ELSE /\ cursel' = <<>>
            /\ code_display' = ShowDetails(cursel', snippets, code_display)
            /\ UNCHANGED <<store, snippets, listbox, issued>>
            /\ Continue("ask_language",
                        [last EXCEPT !.answers = <<title>>,
                                     !.effects = Append(@, "askstring"),
                                     !.changed = @ \cup Touched])

\* The language prompt is answered; a blank or cancelled language becomes
\* "text".  The code prompt opens.
AnswerLanguage(language) ==
    /\ pc = "ask_language"
    /\ Continue("ask_code",
                [last EXCEPT !.answers = Append(@, IF Falsy(language)
                                                  THEN DefaultLanguage
                                                  ELSE language),
                             !.effects = Append(@, "askstring")])
    /\ UNCHANGED <<store, snippets, listbox, cursel, code_display, issued>>

\* a blank or cancelled code ends the handler
AnswerCode(code) ==
    /\ pc = "ask_code"
    /\ IF Falsy(code)
       THEN Finish([last EXCEPT !.answers = Append(@, code)])
       ELSE Continue("ask_tags", [last EXCEPT !.answers = Append(@, code),
                                              !.effects = Append(@, "askstring")])
    /\ UNCHANGED <<store, snippets, listbox, cursel, code_display, issued>>

AnswerTags(tags) ==
    /\ pc = "ask_tags"
    /\ Continue("ask_description",
                [last EXCEPT !.answers = Append(@, tags),
                             !.effects = Append(@, "askstring")])
    /\ UNCHANGED <<store, snippets, listbox, cursel, code_display, issued>>

\* variant: the success notice is shown before the list is reloaded
AddTail_NoticeFirst == <<"insert", "showinfo", "load_snippets">>

\* what follows the last prompt of a completed add, in program order
AddTail == <<"insert", "load_snippets", "showinfo">>

\* The description prompt is answered: the snippet is built and inserted,
\* the list is reloaded and the success notice opens.  A reload that raises
\* ends the handler before the notice.
AnswerDescription(description) ==
    LET a == last.answers
        new_snippet == Snippet(a[1], a[3], a[2], a[4], description, NoId)
        rows == add_snippet(store, new_snippet)
        snips == get_all_snippets(rows)
    IN  /\ pc = "ask_description"
        /\ Len(store) < MaxRows
        /\ NextRowId(store) <= MaxId
        /\ store' = rows
        /\ snippets' = snips
        /\ listbox' = LoadListbox(snips)
        /\ cursel' = <<>>
        /\ issued' = issued \cup RowIds(rows)
        /\ UNCHANGED code_display
        /\ IF LoadRaises(snips)
           THEN Finish([last EXCEPT
                          !.answers = Append(@, description),
                          !.effects = @ \o <<"insert", "load_snippets">>,
                          !.error = "AttributeError",
                          !.changed = @ \cup Touched])
           ELSE Continue("showinfo",
                         [last EXCEPT
                            !.answers = Append(@, description),
                            !.effects = @ \o AddTail,
                            !.changed = @ \cup Touched])

\* the success notice is dismissed
DismissInfo ==
    /\ pc = "showinfo"
    /\ Finish(last)
    /\ UNCHANGED <<store, snippets, listbox, cursel, code_display, issued>>

\* ------------------------------------------------------- delete_snippet
\* variant: the detail view is cleared before the selection is read
DeleteStart_Clears ==
    /\ code_display' = <<>>
    /\ UNCHANGED <<store, snippets, listbox, cursel, issued>>
    /\ IF ~HasSelection(cursel, snippets)
       THEN Start("showerror",
                  Op("delete", <<>>, -1, NoId, FALSE, <<"showerror">>, "",
                     Touched))
       ELSE Start("askyesno",
                  Op("delete", <<>>, cursel[1], Selected(cursel, snippets).id,
                     FALSE, <<"askyesno">>, "", Touched))

\* "Delete" pressed: without a selection the error notice opens; with one
\* the selected snippet is read and the confirmation opens.
DeleteStart ==
    /\ UNCHANGED <<store, snippets, listbox, cursel, code_display, issued>>
    /\ IF ~HasSelection(cursel, snippets)
       THEN Start("showerror",
                  Op("delete", <<>>, -1, NoId, FALSE, <<"showerror">>, "", {}))
       ELSE Start("askyesno",
                  Op("delete", <<>>, cursel[1], Selected(cursel, snippets).id,
                     FALSE, <<"askyesno">>, "", {}))

\* what follows a confirmation, in program order
DeleteTail == <<"delete", "load_snippets", "clear_display">>

\* variant: the detail view is not cleared after the delete
AnswerConfirm_NeverClears(confirm) ==
    LET rows == DeleteById(store, last.target)
        snips == get_all_snippets(rows)
    IN  /\ pc = "askyesno"
        /\ IF ~confirm
           THEN /\ Finish([last EXCEPT !.confirm = FALSE])
                /\ UNCHANGED <<store, snippets, listbox, cursel, code_display,
                               issued>>
           ELSE /\ store' = rows
                /\ snippets' = snips
                /\ listbox' = LoadListbox(snips)
                /\ cursel' = <<>>
                /\ UNCHANGED <<code_display, issued>>
                /\ Finish([last EXCEPT !.confirm = TRUE,
                                       !.effects = @ \o DeleteTail,
                                       !.changed = @ \cup Touched])

\* The confirmation is answered.  On yes the row with the id read at the
\* start is deleted, the list is reloaded and the detail view is cleared; a
\* reload that raises ends the handler before the clearing.
AnswerConfirm(confirm) ==
    LET rows == DeleteById(store, last.target)
        snips == get_all_snippets(rows)
    IN  /\ pc = "askyesno"
        /\ IF ~confirm
           THEN /\ Finish([last EXCEPT !.confirm = FALSE])
                /\ UNCHANGED <<store, snippets, listbox, cursel, code_display,
                               issued>>
           ELSE /\ store' = rows
                /\ snippets' = snips
                /\ listbox' = LoadListbox(snips)
                /\ cursel' = <<>>
                /\ code_display' = IF LoadRaises(snips) THEN code_display
                                   ELSE <<>>
                /\ UNCHANGED issued
                /\ Finish([last EXCEPT
                             !.confirm = TRUE,
                             !.effects = IF LoadRaises(snips)
                                         THEN @ \o <<"delete", "load_snippets">>
                                         ELSE @ \o DeleteTail,
                             !.error = IF LoadRaises(snips)
                                       THEN "AttributeError" ELSE "",
                             !.changed = @ \cup Touched])

\* the error notice is dismissed
DismissError ==
    /\ pc = "showerror"
    /\ Finish(last)
    /\ UNCHANGED <<store, snippets, listbox, cursel, code_display, issued>>

Next ==
    \/ \E i \in 0..(MaxRows - 1) : Select(i)
    \/ Deselect
    \/ AddStart
    \/ \E title \in Titles : AnswerTitle(title)
    \/ \E language \in Languages : AnswerLanguage(language)
    \/ \E code \in Codes : AnswerCode(code)
    \/ \E tags \in TagsIn : AnswerTags(tags)
    \/ \E description \in Descriptions : AnswerDescription(description)
    \/ DismissInfo
    \/ DeleteStart
    \/ \E confirm \in BOOLEAN : AnswerConfirm(confirm)
    \/ DismissError

Spec == Init /\ [][Next]_vars

\* ------------------------------------------- the store driven on its own
\* SnippetDatabase called directly, with any Snippet a caller can build and
\* any id a caller can pass to the DELETE statement.
StoreTitles == {None, <<>>, <<"a">>}
StoreCodes == {None, <<>>, <<"x">>}
StoreLanguages == {None, <<"p","y">>}
StoreTags == {<<"t">>}
StoreDescriptions == {None}

StoreInit ==
    /\ store \in InitStores
    /\ snippets = <<>>
    /\ listbox = <<>>
    /\ cursel = <<>>
    /\ code_display = <<>>
    /\ pc = "idle"
    /\ last = NoOp
    /\ stack = <<>>
    /\ finished = NoOp
    /\ issued = RowIds(store)

StoreAdd(s) ==
    /\ \/ ViolatesNotNull(to_tuple(s))
       \/ Len(store) < MaxRows /\ NextRowId(store) <= MaxId
    /\ store' = add_snippet(store, s)
    /\ issued' = issued \cup RowIds(store')
    /\ finished' = Op("add_snippet", to_tuple(s), -1, NoId, FALSE,
                      IF ViolatesNotNull(to_tuple(s)) THEN <<>>
                      ELSE <<"insert">>,
                      IF ViolatesNotNull(to_tuple(s)) THEN "IntegrityError"
                      ELSE "",
                      {})
    /\ UNCHANGED <<snippets, listbox, cursel, code_display, pc, last, stack>>

StoreDelete(id) ==
    /\ store' = DeleteById(store, id)
    /\ finished' = Op("delete_by_id", <<>>, -1, id, FALSE, <<"delete">>, "", {})
    /\ UNCHANGED <<snippets, listbox, cursel, code_display, pc, last, stack,
                   issued>>

StoreNext ==
    \/ \E title \in StoreTitles, code \in StoreCodes,
          language \in StoreLanguages, tags \in StoreTags,
          description \in StoreDescriptions :
            StoreAdd(Snippet(title, code, language, tags, description, NoId))
    \/ \E id \in 0..(MaxId + 1) : StoreDelete(id)

StoreSpec == StoreInit /\ [][StoreNext]_vars

\* ============================================================ properties
Blank(x) == x = None \/ x = <<>>

RemoveAt(seq, k) ==
    [i \in 1..(Len(seq) - 1) |-> IF i < k THEN seq[i] ELSE seq[i + 1]]

Fields(s) == <<s.title, s.code, s.language, s.tags, s.description>>

ListAll == get_all_snippets(store)

Logged(rec, e) == e \in {rec.effects[i] : i \in 1..Len(rec.effects)}

\* a step in which a button's handler starts
Starts(op) ==
    /\ last'.op = op
    /\ Len(last'.effects) = 1
    /\ (pc = "idle" \/ Len(stack') = Len(stack) + 1)

\* a step in which a handler, or a call of the store, returns
Ends(op) ==
    /\ finished'.op = op
    /\ vars' # vars

\* C1: an Add of a snippet with non-empty title and code makes ListAll()
\* one record longer; the extra record has the snippet's five fields and an
\* assigned id no other record has, and the records stored before are
\* returned unchanged and in the same order.
C1_AddListAllRoundTrip ==
    [][(/\ Ends("add_snippet")
        /\ ~Blank(finished'.answers[1])
        /\ ~Blank(finished'.answers[2]))
       => LET before == get_all_snippets(store)
              after == get_all_snippets(store')
          IN  /\ Len(after) = Len(before) + 1
              /\ \E k \in 1..Len(after) :
                    /\ RemoveAt(after, k) = before
                    /\ Fields(after[k]) = finished'.answers
                    /\ after[k].id # NoId
                    /\ \A j \in 1..Len(after) :
                          j # k => after[j].id # after[k].id]_vars

C1_Witness ==
    /\ finished.op = "add_snippet"
    /\ finished.error = ""
    /\ ~Blank(finished.answers[1])
    /\ ~Blank(finished.answers[2])
    /\ Len(ListAll) = 2
    /\ Fields(ListAll[2]) = finished.answers
    /\ Fields(ListAll[1]) # finished.answers

\* C2 as stated: every id an Add assigns is greater than every id the store
\* assigned before, so the id of a deleted snippet is never assigned again.
C2_NeverReassigned ==
    [][\A n \in RowIds(store') \ RowIds(store) :
          \A m \in issued : n > m]_vars

UniqueIds ==
    \A i, j \in 1..Len(store) : i # j => store[i][1] # store[j][1]

\* C2 amended: the ids of the stored records are unique, and every id an Add
\* assigns is greater than every id stored at that moment, 1 when the store
\* is empty.
C2_UniqueAndAboveStored ==
    /\ []UniqueIds
    /\ [][\A n \in RowIds(store') \ RowIds(store) :
             /\ \A m \in RowIds(store) : n > m
             /\ RowIds(store) = {} => n = 1]_vars

C2_Witness ==
    /\ pc = "showinfo"
    /\ Logged(last, "insert")
    /\ Len(store) = 2
    /\ Cardinality(issued) > Len(store)

\* C3: DeleteById with an id no stored record has raises nothing and leaves
\* ListAll() the same records in the same order.
C3_DeleteAbsentIsNoOp ==
    [][(Ends("delete_by_id") /\ finished'.target \notin RowIds(store))
       => /\ finished'.error = ""
          /\ get_all_snippets(store') = get_all_snippets(store)]_vars

C3_Witness ==
    /\ finished.op = "delete_by_id"
    /\ finished.target \notin issued
    /\ finished.target > 0
    /\ Len(store) = 2
    /\ finished.target < store[1][1]

\* C4 as stated: every stored snippet has a non-empty title and a non-empty
\* code, and an Add whose title or code is empty or absent is rejected.
C4_StoredNonEmpty ==
    /\ \A i \in 1..Len(store) : ~Blank(store[i][2]) /\ ~Blank(store[i][3])
    /\ (/\ finished.op = "add_snippet"
        /\ (Blank(finished.answers[1]) \/ Blank(finished.answers[2])))
       => finished.error = "IntegrityError"

\* C4 amended: every stored snippet has a title and a code that are not
\* NULL; an Add whose title or code is absent is rejected and leaves the
\* store unchanged, and every other Add, empty strings included, persists.
C4_StoredNotNull ==
    /\ [](\A i \in 1..Len(store) : store[i][2] # None /\ store[i][3] # None)
    /\ [][Ends("add_snippet")
          => IF finished'.answers[1] = None \/ finished'.answers[2] = None
             THEN finished'.error = "IntegrityError" /\ store' = store
             ELSE finished'.error = "" /\ Len(store') = Len(store) + 1]_vars

C4_Witness ==
    /\ finished.op = "add_snippet"
    /\ finished.error = "IntegrityError"
    /\ finished.answers[1] # None
    /\ finished.answers[2] = None
    /\ Len(store) = 2

\* C5: an AddNew that ended on a blank or cancelled title or code has
\* changed neither the store, the snippet collection, the list, the
\* selection nor the detail pane, has reloaded nothing and shown no notice.
C5_BlankAddHasNoEffect ==
    (/\ finished.op = "add"
     /\ \/ Len(finished.answers) = 1 /\ Blank(finished.answers[1])
        \/ Len(finished.answers) = 3 /\ Blank(finished.answers[3]))
    => /\ finished.changed = {}
       /\ ~Logged(finished, "insert")
       /\ ~Logged(finished, "load_snippets")
       /\ ~Logged(finished, "showinfo")

Frame == <<store, snippets, listbox, cursel, code_display>>

\* C6: Delete with no list entry selected shows the error notice, asks no
\* confirmation, removes no row and leaves the snippet collection, the
\* list, the selection and the detail pane as they were, also when the
\* notice is dismissed.
C6_DeleteWithoutSelection ==
    [][/\ (Starts("delete") /\ cursel = <<>>)
          => /\ pc' = "showerror"
             /\ last'.effects = <<"showerror">>
             /\ UNCHANGED Frame
       /\ (Ends("delete") /\ pc = "showerror")
          => /\ finished'.effects = <<"showerror">>
             /\ finished'.changed = {}
             /\ UNCHANGED Frame]_vars

C6_Witness ==
    /\ finished.op = "delete"
    /\ finished.effects = <<"showerror">>
    /\ finished.changed = {}
    /\ cursel = <<>>
    /\ Len(store) = 2
    /\ code_display # <<>>

\* C7: Delete reads the selected position i, and on confirmation removes
\* exactly the record labelled at position i: ListAll() afterwards is
\* ListAll() before without position i, the list is reloaded without that
\* entry and the detail pane is empty.
C7_DeleteRemovesSelected ==
    [][/\ (Starts("delete") /\ cursel # <<>>)
          => /\ pc' = "askyesno"
             /\ last'.index = cursel[1]
       /\ (Ends("delete") /\ finished'.confirm)
          => LET k == last.index + 1
                 before == get_all_snippets(store)
             IN  /\ k \in 1..Len(before)
                 /\ listbox[k] = <<"[">> \o Upper(before[k].language)
                                 \o <<"]", " ">> \o before[k].title
                 /\ get_all_snippets(store') = RemoveAt(before, k)
                 /\ snippets' = RemoveAt(before, k)
                 /\ listbox' = RemoveAt(listbox, k)
                 /\ code_display' = <<>>]_vars

\* two snippets in the table, the first one deleted
C7_Witness ==
    /\ finished.op = "delete"
    /\ finished.confirm
    /\ finished.index = 0
    /\ issued = {1, 2}
    /\ Len(ListAll) = 1
    /\ ListAll[1].id = 2

\* C8: the list, the snippet collection and ListAll() have the same length
\* and order, and label i is "[L] T" for the title T and upper-cased
\* language L of snippet i, the i-th record.
C8_IndexAlignment ==
    /\ Len(listbox) = Len(snippets)
    /\ Len(snippets) = Len(store)
    /\ \A i \in 1..Len(store) :
          /\ snippets[i].id = store[i][1]
          /\ Fields(snippets[i])
               = <<store[i][2], store[i][3], store[i][4], store[i][5], store[i][6]>>
          /\ listbox[i] = <<"[">> \o Upper(store[i][4]) \o <<"]", " ">>
                          \o store[i][2]

C8_Witness ==
    /\ finished.op = "add"
    /\ Logged(finished, "insert")
    /\ Len(listbox) = 2
    /\ listbox[1] = <<"[", "É", "S", "S", "]", " ", "a">>
    /\ listbox[2] = <<"[", "T", "E", "X", "T", "]", " ", "a">>

EffectKind(e) ==
    IF e \in {"insert", "delete"} THEN "mutation"
    ELSE IF e = "load_snippets" THEN "rebuild"
    ELSE IF e \in {"showinfo", "showerror"} THEN "notice"
    ELSE "other"

SideEffects(rec) ==
    LET kinds == [i \in 1..Len(rec.effects) |-> EffectKind(rec.effects[i])]
    IN  SelectSeq(kinds, LAMBDA k : k # "other")

\* the handler that runs, those that wait below it and the one just ended
Handlers == {last, finished} \cup {stack[i].rec : i \in 1..Len(stack)}

\* C9: the side effects of one user action, a handler's own, are at most
\* one store mutation, then at most one list rebuild, then at most one
\* notice, in that order, and a mutation is always followed by a rebuild.
C9_EffectOrder ==
    \A rec \in Handlers :
        rec.op \in {"add", "delete"}
        => SideEffects(rec) \in { <<>>, <<"rebuild">>, <<"notice">>,
                                  <<"rebuild", "notice">>,
                                  <<"mutation", "rebuild">>,
                                  <<"mutation", "rebuild", "notice">> }

\* an add that ran inside a waiting add has returned
C9_Witness ==
    /\ finished.op = "add"
    /\ SideEffects(finished) = <<"mutation", "rebuild", "notice">>
    /\ pc \in AskStates
    /\ last.op = "add"
    /\ Len(store) = 2

\* C10: the detail pane is empty or shows the fields of a record that is in
\* the store, and while an entry is selected it shows the snippet at the
\* selected position.
C10_DetailPane ==
    /\ \/ code_display = <<>>
       \/ \E i \in 1..Len(store) :
             code_display = Details(get_all_snippets(store)[i])
    /\ cursel # <<>>
       => /\ cursel[1] < Len(snippets)
          /\ code_display = Details(get_all_snippets(store)[cursel[1] + 1])

C10_Witness ==
    /\ finished.op = "delete"
    /\ finished.confirm
    /\ "code_display" \in finished.changed
    /\ code_display = <<>>
    /\ Len(store) = 1
    /\ Cardinality(issued) = 2

====
